---- MODULE Spec2Model ----
(***************************************************************************)
(* A model of littlebit's secp256k1 module (src/littlebit/ecc/secp256k1.py) *)
(* together with the generic FieldElement and Point classes it is built on. *)
(*                                                                         *)
(* Scale.  TLC's integers are 32 bits wide, so the curve y^2 = x^3 + 7 is   *)
(* instantiated over a small prime field instead of the 256-bit one.  The   *)
(* instance keeps the structure the code relies on:                        *)
(*   - P is prime and P % 4 = 3 (S256FieldElement.sqrt's Lemma 1);          *)
(*   - the curve group has prime order N, so every finite point generates   *)
(*     it, and N < P, so x-coordinates in [N, P) exist (on secp256k1 the    *)
(*     x-coordinate N itself is on the curve);                             *)
(*   - 7 is no square modulo P, so no point has x = 0;                      *)
(*   - N is just below a power of two and the float significand is          *)
(*     narrower than N, so N / 2 rounds up to that power of two exactly as  *)
(*     float(N / 2) = 2^255 does for the real N.                            *)
(* The nonce of deterministic_k is an HMAC-SHA256 output; the model draws   *)
(* it from [1, N), the whole range the rejection loop can return.           *)
(***************************************************************************)
EXTENDS Integers, Sequences, FiniteSets, TLC

(***************************************************************************)
(* Program constants (scaled, see above).                                  *)
(***************************************************************************)
A == 0
B == 7
P == 43
N == 31
Gx == 2
Gy == 12
\* Bytes of a serialised 256-bit integer: to_bytes(32, "big").
ByteLen == 32
\* Signature.der's PREFIX (0x30), MARKER (0x02) and NULL_BYTE.
PREFIX == 48
MARKER == 2
NULL_BYTE == 0

(***************************************************************************)
(* Bounds of the model.                                                    *)
(***************************************************************************)
\* Significand width of the float that N / 2 is rounded to.
MantissaBits == 3
\* PrivateKey secrets are drawn from 1..MaxSecret.
MaxSecret == 2
\* Hashes handed to verify are drawn from 0..N+ZPastN, hashes handed to sign
\* from 0..MaxHash and N..N+ZPastN (so z < N, z = N and z > N occur).
ZPastN == 1
MaxHash == 7
\* Scalar coefficients are drawn from -MaxCoef..MaxCoef.
MaxCoef == 70
\* FieldElement primes are the primes up to MaxPrime, exponents are drawn
\* from -MaxExp..MaxExp.
MaxPrime == 31
MaxExp == 31
\* DER integers are drawn from within DerSpread of a byte or sign boundary.
DerSpread == 1
\* Raw coordinates handed to parse are drawn from 0..P+CoordPastP.
CoordPastP == 1

(***************************************************************************)
(* Python's integers.                                                      *)
(***************************************************************************)
\* a % n for n > 0: never negative.
PyMod(a, n) == a % n

\* pow(base, exp, mod) for exp >= 0: square and multiply.
RECURSIVE PowMod(_, _, _)
PowMod(base, exp, mod) ==
  IF exp = 0 THEN 1 % mod
  ELSE LET h == PowMod(base, exp \div 2, mod)
           sq == (h * h) % mod
       IN IF exp % 2 = 1 THEN (sq * (base % mod)) % mod ELSE sq

\* Number of bits of n > 0: n.bit_length().
RECURSIVE BitLength(_)
BitLength(n) == IF n = 0 THEN 0 ELSE 1 + BitLength(n \div 2)

RECURSIVE Pow2(_)
Pow2(e) == IF e = 0 THEN 1 ELSE 2 * Pow2(e - 1)

\* The float n / 2, as twice its value: n / 2 is the correctly rounded
\* quotient, round-half-to-even, in a significand of MantissaBits bits.
TrueDivBy2Twice(n) ==
  LET len == BitLength(n)
  IN IF len <= MantissaBits THEN n
     ELSE LET d == len - MantissaBits
              q == n \div Pow2(d)
              rem == n % Pow2(d)
              half == Pow2(d - 1)
              up == rem > half \/ (rem = half /\ q % 2 = 1)
          IN (IF up THEN q + 1 ELSE q) * Pow2(d)

\* s > N / 2, an int compared with a float: Python compares the exact values.
GreaterThanHalf(s, n) == 2 * s > TrueDivBy2Twice(n)

(***************************************************************************)
(* FieldElement (littlebit/ecc/field.py).                                  *)
(***************************************************************************)
\* Python's None, for the coordinates of the point at infinity.
None == [number |-> -1, prime |-> -1]

FieldElement(number, prime) == [number |-> number, prime |-> prime]

\* The constructor's range check: ValueError outside [0, prime).
FieldInRange(number, prime) == 0 <= number /\ number < prime

FieldAdd(a, b) == FieldElement((a.number + b.number) % a.prime, a.prime)

FieldSub(a, b) == FieldElement((a.number - b.number) % a.prime, a.prime)

FieldMul(a, b) == FieldElement((a.number * b.number) % a.prime, a.prime)

\* FieldPow with the exponent reduced modulo prime instead of prime - 1.
FieldPowModPrime(a, e) ==
  FieldElement(PowMod(a.number, PyMod(e, a.prime), a.prime), a.prime)

\* a ** e: the exponent is first taken into [0, prime-1).
FieldPow(a, e) ==
  FieldElement(PowMod(a.number, PyMod(e, a.prime - 1), a.prime), a.prime)

\* a / b = a * b ** (prime - 2).
FieldDiv(a, b) == FieldMul(a, FieldPow(b, a.prime - 2))

\* Multiplication of a field element by a small integer coefficient.
FieldScale(c, a) == FieldElement((c * a.number) % a.prime, a.prime)

(***************************************************************************)
(* S256FieldElement.                                                       *)
(***************************************************************************)
S256FieldElement(number) == FieldElement(number, P)

\* S256Sqrt with the exponent (P - 1) // 4.
S256SqrtWrongExponent(fe) == FieldPow(fe, (fe.prime - 1) \div 4)

\* w = (w^2) ** ((P + 1) // 4), valid because P % 4 = 3.
S256Sqrt(fe) == FieldPow(fe, (fe.prime + 1) \div 4)

(***************************************************************************)
(* Point (littlebit/ecc/point.py), on y^2 = x^3 + a x + b.                 *)
(***************************************************************************)
Point(x, y) == [x |-> x, y |-> y]

Infinity == Point(None, None)

\* The constructor's check: the point at infinity, or y^2 = x^3 + a x + b.
OnCurve(x, y, a, b) ==
  FieldMul(y, y) = FieldAdd(FieldAdd(FieldPow(x, 3), FieldMul(a, x)), b)

PointAdd(p, q, a) ==
  IF p.x = None THEN q
  ELSE IF q.x = None THEN p
  ELSE IF p.x = q.x /\ p.y # q.y THEN Infinity
  ELSE IF p = q /\ p.y.number = 0 THEN Infinity
  ELSE IF p = q THEN
    LET m == FieldDiv(FieldAdd(FieldScale(3, FieldMul(p.x, p.x)), a),
                      FieldScale(2, p.y))
        x3 == FieldSub(FieldMul(m, m), FieldScale(2, p.x))
        y3 == FieldSub(FieldMul(m, FieldSub(p.x, x3)), p.y)
    IN Point(x3, y3)
  ELSE
    LET m == FieldDiv(FieldSub(q.y, p.y), FieldSub(q.x, p.x))
        x3 == FieldSub(FieldSub(FieldMul(m, m), p.x), q.x)
        y3 == FieldSub(FieldMul(m, FieldSub(p.x, x3)), p.y)
    IN Point(x3, y3)

\* coefficient * point by double-and-add, least significant bit first,
\* for a coefficient >= 0.
RECURSIVE DoubleAndAdd(_, _, _, _)
DoubleAndAdd(coef, current, result, a) ==
  IF coef = 0 THEN result
  ELSE DoubleAndAdd(coef \div 2,
                    PointAdd(current, current, a),
                    IF coef % 2 = 1 THEN PointAdd(result, current, a) ELSE result,
                    a)

PointRMul(coefficient, point, a) == DoubleAndAdd(coefficient, point, Infinity, a)

(***************************************************************************)
(* S256Point.                                                              *)
(***************************************************************************)
S256A == S256FieldElement(A)
S256B == S256FieldElement(B)

S256Point(x, y) == Point(S256FieldElement(x), S256FieldElement(y))

G == S256Point(Gx, Gy)

S256Add(p, q) == PointAdd(p, q, S256A)

\* S256RMul with the coefficient reduced modulo the field prime P.
S256RMulModP(coefficient, point) == PointRMul(PyMod(coefficient, P), point, S256A)

\* S256Point.__rmul__: the coefficient is reduced modulo N first.
S256RMul(coefficient, point) == PointRMul(PyMod(coefficient, N), point, S256A)

\* Every finite point of the curve.
CurvePoints ==
  {pt \in {S256Point(x, y) : x \in 0..(P - 1), y \in 0..(P - 1)} :
     OnCurve(pt.x, pt.y, S256A, S256B)}

(***************************************************************************)
(* ECDSA: S256Point.verify, PrivateKey, PrivateKey.sign.                   *)
(***************************************************************************)
Signature(r, s) == [r |-> r, s |-> s]

\* Verify with s_inv = pow(s, N - 1, N), an exponent off by one.
VerifyWrongInverse(self, z, signature) ==
  LET s_inv == PowMod(signature.s, N - 1, N)
      u == (z * s_inv) % N
      v == (signature.r * s_inv) % N
      total == S256Add(S256RMul(u, G), S256RMul(v, self))
  IN IF total.x = None THEN "AttributeError"
     ELSE IF total.x.number = signature.r THEN "True" ELSE "False"

\* verify's outcome: "True", "False", or the AttributeError of reading
\* total.x.number when total is the point at infinity (total.x is None).
Verify(self, z, signature) ==
  LET s_inv == PowMod(signature.s, N - 2, N)
      u == (z * s_inv) % N
      v == (signature.r * s_inv) % N
      total == S256Add(S256RMul(u, G), S256RMul(v, self))
  IN IF total.x = None THEN "AttributeError"
     ELSE IF total.x.number = signature.r THEN "True" ELSE "False"

\* PrivateKey.__post_init__: the public point is secret * G.
PrivateKey(secret) ==
  [op |-> "PrivateKey", secret |-> secret, point |-> S256RMul(secret, G)]

\* The values deterministic_k can return: a candidate is returned only
\* when 1 <= candidate < N.
DeterministicK == 1..(N - 1)

\* s before the low-s step: ((z + r * secret) * k_inv) % N.
RawS(secret, z, k) ==
  LET R == S256RMul(k, G)
      r == R.x.number
      k_inv == PowMod(k, N - 2, N)
  IN ((z + r * secret) * k_inv) % N

\* sign(z) when deterministic_k(z) returns k.
Sign(secret, z, k) ==
  LET R == S256RMul(k, G)
      r == R.x.number
      s == RawS(secret, z, k)
  IN Signature(r, IF GreaterThanHalf(s, N) THEN N - s ELSE s)

(***************************************************************************)
(* Bytes: int.to_bytes, int.from_bytes, bytes.lstrip.                      *)
(***************************************************************************)
\* n.to_bytes(len, "big") for 0 <= n < 256^len.
RECURSIVE ToBytes(_, _)
ToBytes(n, len) ==
  IF len = 0 THEN <<>> ELSE Append(ToBytes(n \div 256, len - 1), n % 256)

\* int.from_bytes(bytes, "big").
RECURSIVE FromBytes(_)
FromBytes(bytes) ==
  IF bytes = <<>> THEN 0
  ELSE 256 * FromBytes(SubSeq(bytes, 1, Len(bytes) - 1)) + bytes[Len(bytes)]

\* bytes.lstrip(NULL_BYTE).
RECURSIVE LStrip(_)
LStrip(bytes) ==
  IF bytes # <<>> /\ bytes[1] = NULL_BYTE THEN LStrip(Tail(bytes)) ELSE bytes

\* byte & 0x80 is nonzero.
HighBitSet(byte) == (byte \div 128) % 2 = 1

(***************************************************************************)
(* Signature.der.  A result is [exc, bytes]; exc is "none" or the name of  *)
(* the exception raised.                                                   *)
(***************************************************************************)
Raised(exc) == [exc |-> exc, bytes |-> <<>>]

Returned(bytes) == [exc |-> "none", bytes |-> bytes]

\* rbin / sbin: the stripped big-endian bytes, a NULL_BYTE prepended when
\* the first byte has its high bit set; rbin[0] of empty bytes is an
\* IndexError.
DerInteger(n) ==
  LET bin == LStrip(ToBytes(n, ByteLen))
  IN IF bin = <<>> THEN Raised("IndexError")
     ELSE IF HighBitSet(bin[1]) THEN Returned(<<NULL_BYTE>> \o bin)
     ELSE Returned(bin)

Der(signature) ==
  LET rbin == DerInteger(signature.r)
      sbin == DerInteger(signature.s)
  IN IF rbin.exc # "none" THEN rbin
     ELSE IF sbin.exc # "none" THEN sbin
     ELSE LET result == <<MARKER, Len(rbin.bytes)>> \o rbin.bytes
                        \o <<MARKER, Len(sbin.bytes)>> \o sbin.bytes
          IN Returned(<<PREFIX, Len(result)>> \o result)

(***************************************************************************)
(* S256Point.sec and S256Point.parse.  A parse result is [exc, point].     *)
(***************************************************************************)
PointRaised(exc) == [exc |-> exc, point |-> Infinity]

PointReturned(point) == [exc |-> "none", point |-> point]

\* S256Point(x, y) with field elements: Point's constructor raises
\* ValueError when (x, y) is not on the curve.
S256PointInit(x, y) ==
  IF OnCurve(x, y, S256A, S256B) THEN PointReturned(Point(x, y))
  ELSE PointRaised("ValueError")

\* S256Point(x, y) with ints: each is wrapped in an S256FieldElement, whose
\* constructor raises ValueError outside [0, P).
S256PointFromInts(x, y) ==
  IF FieldInRange(x, P) /\ FieldInRange(y, P)
  THEN S256PointInit(S256FieldElement(x), S256FieldElement(y))
  ELSE PointRaised("ValueError")

Sec(point, compressed) ==
  IF compressed
  THEN IF point.y.number % 2 = 0
       THEN <<2>> \o ToBytes(point.x.number, ByteLen)
       ELSE <<3>> \o ToBytes(point.x.number, ByteLen)
  ELSE <<4>> \o ToBytes(point.x.number, ByteLen)
            \o ToBytes(point.y.number, ByteLen)

\* The y of the compressed branch: sqrt(x^3 + 7) or P - sqrt(x^3 + 7).
ParseY(x, is_y_expected_to_be_even) ==
  LET alpha == FieldAdd(FieldPow(x, 3), S256FieldElement(B))
      y == S256Sqrt(alpha)
  IN IF is_y_expected_to_be_even
     THEN IF y.number % 2 = 0 THEN y.number ELSE P - y.number
     ELSE IF y.number % 2 = 0 THEN P - y.number ELSE y.number

Parse(sec_bin) ==
  IF sec_bin[1] = 4
  THEN S256PointFromInts(FromBytes(SubSeq(sec_bin, 2, 1 + ByteLen)),
                         FromBytes(SubSeq(sec_bin, 2 + ByteLen, 1 + 2 * ByteLen)))
  ELSE LET is_y_expected_to_be_even == sec_bin[1] = 2
           xnum == FromBytes(SubSeq(sec_bin, 2, Len(sec_bin)))
       IN IF ~FieldInRange(xnum, P) THEN PointRaised("ValueError")
          ELSE LET x == S256FieldElement(xnum)
                   ynum == ParseY(x, is_y_expected_to_be_even)
               IN IF ~FieldInRange(ynum, P) THEN PointRaised("ValueError")
                  ELSE S256PointInit(x, S256FieldElement(ynum))

(***************************************************************************)
(* ECDSA state: a PrivateKey, the hash it is asked to sign with the nonce   *)
(* deterministic_k returns for it, then the last sign and verify calls      *)
(* with their arguments and results.                                       *)
(***************************************************************************)
VARIABLES key, hash, nonce, signed, verified

(***************************************************************************)
(* Codec and arithmetic state: the arguments of a call (input), the bytes  *)
(* sec returned (encoded), the result of parse (parsed), and the result of *)
(* der, of a scalar multiplication or of a FieldElement power (output).    *)
(***************************************************************************)
VARIABLES input, encoded, parsed, output

ecdsaVars == <<key, hash, nonce, signed, verified>>

callVars == <<input, encoded, parsed, output>>

vars == <<key, hash, nonce, signed, verified, input, encoded, parsed, output>>

\* No call made yet.
NoCall == [op |-> "none"]

\* The message hashes the model verifies, and those it signs.
Hashes == 0..(N + ZPastN)

SignedHashes == (0..MaxHash) \cup (N..(N + ZPastN))

NoCalls == input = NoCall /\ encoded = NoCall /\ parsed = NoCall /\ output = NoCall

NoEcdsa ==
  /\ key = NoCall /\ hash = 0 /\ nonce = 0
  /\ signed = NoCall /\ verified = NoCall

EcdsaInit ==
  /\ key \in {PrivateKey(secret) : secret \in 1..MaxSecret}
  /\ hash \in SignedHashes
  /\ nonce \in DeterministicK
  /\ signed = NoCall
  /\ verified = NoCall
  /\ NoCalls

\* key.sign(hash).
DoSign ==
  /\ signed.op = "none"
  /\ signed' = [op |-> "sign", z |-> hash, k |-> nonce,
                raw_s |-> RawS(key.secret, hash, nonce),
                sig |-> Sign(key.secret, hash, nonce)]
  /\ UNCHANGED <<key, hash, nonce, verified>>
  /\ UNCHANGED callVars

DoVerify(z, sig) ==
  /\ signed.op = "sign"
  /\ verified.op = "none"
  /\ verified' = [op |-> "verify", z |-> z, sig |-> sig,
                  outcome |-> Verify(key.point, z, sig)]
  /\ UNCHANGED <<key, hash, nonce, signed>>
  /\ UNCHANGED callVars

\* key.point.verify(z, sign(z)).
VerifySigned == DoVerify(signed.z, signed.sig)

\* key.point.verify(z', sign(z)) for another hash z'.
VerifyOtherHash ==
  \E z \in Hashes \ {hash} : DoVerify(z, signed.sig)

\* key.point.verify(z, sig') where sig' differs from sign(z) in r.
VerifyOtherR ==
  \E r \in 0..(P - 1) :
    /\ signed.op = "sign"
    /\ r # signed.sig.r
    /\ DoVerify(signed.z, Signature(r, signed.sig.s))

\* key.point.verify(z, sig') where sig' differs from sign(z) in s.
VerifyOtherS ==
  \E s \in 0..(N - 1) :
    /\ signed.op = "sign"
    /\ s # signed.sig.s
    /\ DoVerify(signed.z, Signature(signed.sig.r, s))

EcdsaNext ==
  \/ DoSign
  \/ VerifySigned
  \/ VerifyOtherHash
  \/ VerifyOtherR
  \/ VerifyOtherS

SpecECDSA == EcdsaInit /\ [][EcdsaNext]_vars

(***************************************************************************)
(* ECDSA properties, checked under SpecECDSA.                              *)
(***************************************************************************)
IsVerified == verified.op = "verify"

\* The verify call was handed the signed hash and the signature sign returned.
VerifiedAsSigned ==
  IsVerified /\ verified.z = signed.z /\ verified.sig = signed.sig

\* C1: key.point.verify(z, key.sign(z)) returns True, whatever the nonce.
C1_RoundTrip == VerifiedAsSigned => verified.outcome = "True"

\* C2: verify returns False for every hash other than the signed one and
\* for every signature that differs from the returned one in r or in s.
C2_TamperRejected ==
  (IsVerified /\ ~VerifiedAsSigned) => verified.outcome = "False"

\* The x-coordinate test of verify, for the point ((z + r*secret) / s) * G.
AcceptsR(secret, z, r, s) ==
  LET total == S256RMul((z + r * secret) * PowMod(s, N - 2, N), G)
  IN total.x # None /\ total.x.number = r

\* C2 as amended: for (r, s) = sign(z), verify returns True for another
\* hash z' exactly when s # 0 and z' is congruent modulo N to z or to
\* -z - 2*r*secret; for another s' exactly when s # 0 and s' = N - s; and
\* for another r' exactly when r' is the x-coordinate of
\* ((z + r'*secret) / s) * G.  Otherwise it returns False or raises.
C2_TamperRejectedUpToSymmetry ==
  (IsVerified /\ ~VerifiedAsSigned) =>
    LET d == key.secret
        z == signed.z
        r == signed.sig.r
        s == signed.sig.s
        accepted == verified.outcome = "True"
    IN /\ verified.outcome \in {"True", "False", "AttributeError"}
       /\ verified.z # z =>
            (accepted <=>
               /\ s # 0
               /\ \/ verified.z % N = z % N
                  \/ verified.z % N = (0 - z - 2 * r * d) % N)
       /\ verified.sig.s # s =>
            (accepted <=> (s # 0 /\ verified.sig.s = N - s))
       /\ verified.sig.r # r =>
            (accepted <=> AcceptsR(d, z, verified.sig.r, s))

\* C2's case: a hash that is not congruent to the signed one is accepted,
\* and another one is rejected.
C2_Witness ==
  /\ IsVerified
  /\ verified.sig = signed.sig
  /\ verified.z % N # signed.z % N
  /\ verified.outcome = "True"

\* C6: sign returns a Signature with 0 <= r < N and 0 <= s < N.
C6_SignatureInRange ==
  signed.op = "sign" =>
    /\ 0 <= signed.sig.r /\ signed.sig.r < N
    /\ 0 <= signed.sig.s /\ signed.sig.s < N

\* C7: verify returns a boolean, and never raises, for every hash and
\* every Signature with r and s in [0, N).
C7_VerifyReturnsBoolean ==
  (IsVerified /\ verified.sig.r \in 0..(N - 1) /\ verified.sig.s \in 0..(N - 1))
    => verified.outcome \in {"True", "False"}

\* C10: sign returns s with 2*s <= N: N - raw_s when 2*raw_s > N, and
\* raw_s unchanged otherwise.
C10_LowS ==
  signed.op = "sign" =>
    /\ 2 * signed.sig.s <= N
    /\ 2 * signed.raw_s > N => signed.sig.s = N - signed.raw_s
    /\ 2 * signed.raw_s <= N => signed.sig.s = signed.raw_s

(***************************************************************************)
(* SEC: sec on every finite point, parse of what sec returned, and parse   *)
(* of raw byte strings (a leading byte, x, and y after a leading 0x04).    *)
(***************************************************************************)
\* Leading bytes handed to parse.
PrefixBytes == {0, 1, 2, 3, 4, 5, 255}

RawCoords == 0..(P + CoordPastP)

RawSec(prefix, x, y) ==
  <<prefix>> \o ToBytes(x, ByteLen)
             \o (IF prefix = 4 THEN ToBytes(y, ByteLen) ELSE <<>>)

SecInit ==
  /\ input \in
       {[op |-> "sec", point |-> pt, compressed |-> c] :
          pt \in CurvePoints, c \in BOOLEAN}
       \cup {[op |-> "parse", bytes |-> RawSec(b, x, y)] :
               b \in PrefixBytes, x \in RawCoords, y \in RawCoords}
  /\ encoded = NoCall
  /\ parsed = NoCall
  /\ output = NoCall
  /\ NoEcdsa

\* input.point.sec(input.compressed).
DoSec ==
  /\ input.op = "sec"
  /\ encoded.op = "none"
  /\ encoded' = [op |-> "sec", bytes |-> Sec(input.point, input.compressed)]
  /\ UNCHANGED <<input, parsed, output>>
  /\ UNCHANGED ecdsaVars

DoParse(sec_bin) ==
  /\ parsed.op = "none"
  /\ parsed' = [op |-> "parse", bytes |-> sec_bin, result |-> Parse(sec_bin)]
  /\ UNCHANGED <<input, encoded, output>>
  /\ UNCHANGED ecdsaVars

\* S256Point.parse(P.sec(compressed)).
ParseEncoded == encoded.op = "sec" /\ DoParse(encoded.bytes)

\* S256Point.parse(bytes) of a raw byte string.
ParseRaw == input.op = "parse" /\ DoParse(input.bytes)

SecNext == DoSec \/ ParseEncoded \/ ParseRaw

SpecSEC == SecInit /\ [][SecNext]_vars

\* C3: parse(P.sec(compressed)) = P for every finite point P, compressed or
\* not; in the compressed case y is sqrt(x^3 + 7) or P - sqrt(x^3 + 7),
\* whichever has the parity the prefix byte announces.
C3_SecRoundTrip ==
  (encoded.op = "sec" /\ parsed.op = "parse") =>
    /\ parsed.result = PointReturned(input.point)
    /\ Len(encoded.bytes) = (IF input.compressed THEN 1 + ByteLen ELSE 1 + 2 * ByteLen)
    /\ input.compressed =>
         LET x == parsed.result.point.x
             y == parsed.result.point.y.number
             w == S256Sqrt(FieldAdd(FieldMul(FieldMul(x, x), x), S256B)).number
         IN /\ encoded.bytes[1] \in {2, 3}
            /\ (w * w) % P = (x.number * x.number * x.number + B) % P
            /\ y \in {w, P - w}
            /\ y % 2 = encoded.bytes[1] - 2

\* C3's case: a compressed point whose y is not the square root the power
\* yields, so that parse returns P - sqrt(x^3 + 7).
C3_Witness ==
  /\ encoded.op = "sec" /\ parsed.op = "parse"
  /\ input.compressed
  /\ input.point.y.number % 2 = 1
  /\ parsed.result = PointReturned(input.point)
  /\ input.point.y # S256Sqrt(FieldAdd(FieldPow(input.point.x, 3), S256B))

\* C4: parse fails, returning no point, whenever the leading byte is not
\* 0x02, 0x03 or 0x04.  (The claim names the failure a FormatError; the
\* formula accepts any exception, so a violation is a returned point.)
C4_ParseRejectsPrefix ==
  (parsed.op = "parse" /\ parsed.bytes[1] \notin {2, 3, 4}) =>
    parsed.result.exc # "none"

(***************************************************************************)
(* DER: der on Signatures whose r and s lie around the byte and sign       *)
(* boundaries.                                                             *)
(***************************************************************************)
DerBoundaries == {1, 128, 256, 32768, 65536, 8388608, 16777216, 1073741824}

DerValues ==
  {0} \cup {v \in {b + d : b \in DerBoundaries, d \in (0 - DerSpread)..DerSpread} :
              v >= 0}

DerInit ==
  /\ input \in {[op |-> "der", sig |-> Signature(r, s)] :
                  r \in DerValues, s \in DerValues}
  /\ encoded = NoCall
  /\ parsed = NoCall
  /\ output = NoCall
  /\ NoEcdsa

\* input.sig.der().
DoDer ==
  /\ input.op = "der"
  /\ output.op = "none"
  /\ output' = [op |-> "der", result |-> Der(input.sig)]
  /\ UNCHANGED <<input, encoded, parsed>>
  /\ UNCHANGED ecdsaVars

SpecDER == DerInit /\ [][DoDer]_vars

\* The big-endian digits of n in base 256, without leading zeros.
RECURSIVE MinimalBytes(_)
MinimalBytes(n) ==
  IF n = 0 THEN <<>> ELSE Append(MinimalBytes(n \div 256), n % 256)

\* 0x02, the content length, then the content: the minimal bytes, after a
\* single 0x00 iff the first of them is >= 0x80.
DerIntegerShape(n) ==
  LET digits == MinimalBytes(n)
      content == IF digits # <<>> /\ digits[1] >= 128
                 THEN <<0>> \o digits ELSE digits
  IN <<2, Len(content)>> \o content

\* C5: der() returns 0x30, then len(bytes) - 2, then r and s each encoded
\* as DerIntegerShape, for every Signature with r and s in [0, N).
C5_DerShape ==
  output.op = "der" =>
    /\ output.result.exc = "none"
    /\ Len(output.result.bytes) >= 2
    /\ output.result.bytes[1] = 48
    /\ output.result.bytes[2] = Len(output.result.bytes) - 2
    /\ SubSeq(output.result.bytes, 3, Len(output.result.bytes))
         = DerIntegerShape(input.sig.r) \o DerIntegerShape(input.sig.s)

(***************************************************************************)
(* Scalar multiplication: k * Q and (k + N) * Q for every point Q.         *)
(***************************************************************************)
MulInit ==
  /\ input \in {[op |-> "rmul", coefficient |-> k, point |-> pt] :
                  k \in (0 - MaxCoef)..MaxCoef, pt \in CurvePoints \cup {Infinity}}
  /\ encoded = NoCall
  /\ parsed = NoCall
  /\ output = NoCall
  /\ NoEcdsa

\* input.coefficient * input.point and (input.coefficient + N) * input.point.
DoRMul ==
  /\ input.op = "rmul"
  /\ output.op = "none"
  /\ output' = [op |-> "rmul",
                product |-> S256RMul(input.coefficient, input.point),
                shifted |-> S256RMul(input.coefficient + N, input.point)]
  /\ UNCHANGED <<input, encoded, parsed>>
  /\ UNCHANGED ecdsaVars

SpecMul == MulInit /\ [][DoRMul]_vars

\* point + point + ... + point, n times.
RECURSIVE AddTimes(_, _)
AddTimes(n, point) ==
  IF n = 0 THEN Infinity ELSE S256Add(AddTimes(n - 1, point), point)

\* C8: k * Q is (k mod N) * Q for every integer k and point Q, so
\* (k + N) * Q = k * Q, N * G is the point at infinity and 0 * Q is too.
C8_ScalarReducedModN ==
  output.op = "rmul" =>
    /\ output.product = AddTimes(input.coefficient % N, input.point)
    /\ output.shifted = output.product
    /\ input.coefficient \in {0, N} => output.product = Infinity

\* C8's case: a negative coefficient, -1 * G, yields -G = (N - 1) * G.
C8_Witness ==
  /\ output.op = "rmul"
  /\ input.coefficient = 0 - 1
  /\ input.point = G
  /\ output.product = S256Point(Gx, P - Gy)
  /\ output.shifted = output.product

(***************************************************************************)
(* FieldElement powers: a ** e and a ** (-e) for nonzero a.                *)
(***************************************************************************)
IsPrime(n) == n >= 2 /\ \A d \in 2..(n - 1) : n % d # 0

FieldPrimes == {p \in 2..MaxPrime : IsPrime(p)}

\* test_pow's cases over prime 31: <<a, e, b, c>> for a ** e * b == c.
TestPowCases == {<<17, 3, 1, 15>>, <<5, 5, 18, 16>>, <<17, -3, 1, 29>>, <<4, -4, 11, 13>>}

PowInit ==
  /\ input \in UNION {{[op |-> "pow", a |-> FieldElement(n, p), e |-> e] :
                         n \in 1..(p - 1), e \in (0 - MaxExp)..MaxExp} :
                      p \in FieldPrimes}
  /\ encoded = NoCall
  /\ parsed = NoCall
  /\ output = NoCall
  /\ NoEcdsa

\* input.a ** input.e and input.a ** (-input.e).
DoPow ==
  /\ input.op = "pow"
  /\ output.op = "none"
  /\ output' = [op |-> "pow",
                power |-> FieldPow(input.a, input.e),
                inverse |-> FieldPow(input.a, 0 - input.e)]
  /\ UNCHANGED <<input, encoded, parsed>>
  /\ UNCHANGED ecdsaVars

SpecPow == PowInit /\ [][DoPow]_vars

\* b * b * ... * b (n times) modulo p.
RECURSIVE NaivePow(_, _, _)
NaivePow(b, n, p) == IF n = 0 THEN 1 % p ELSE (b * NaivePow(b, n - 1, p)) % p

\* C9: for nonzero a over a prime p and any integer e, a ** e is a raised
\* to e mod (p - 1), so a ** e * a ** (-e) = 1, a * a ** (-1) = 1 and
\* a ** (p - 1) = 1; test_pow's cases hold.
C9_PowNegativeExponent ==
  output.op = "pow" =>
    LET a == input.a
        p == input.a.prime
        e == input.e
        one == FieldElement(1 % p, p)
    IN /\ output.power = FieldElement(NaivePow(a.number, e % (p - 1), p), p)
       /\ FieldMul(output.power, output.inverse) = one
       /\ e = 0 - 1 => FieldMul(a, output.power) = one
       /\ e = p - 1 => output.power = one
       /\ \A t \in TestPowCases :
            (a = FieldElement(t[1], 31) /\ e = t[2]) =>
              FieldMul(output.power, FieldElement(t[3], 31)) = FieldElement(t[4], 31)

\* C9's case: a negative exponent, the test's 17 ** -3 = 29 over prime 31.
C9_Witness ==
  /\ output.op = "pow"
  /\ input.a = FieldElement(17, 31)
  /\ input.e = 0 - 3
  /\ output.power = FieldElement(29, 31)
====
